---- MODULE Spec2Model ----
(***************************************************************************)
(* Job orchestration and progress distribution of the FFmpeg server        *)
(* (server.js): the activeJobs map, the engine event handlers of the       *)
(* convert / trim / merge / filter routes, the thumbnail and job query    *)
(* routes, the WebSocket connection registry, broadcastProgress and the    *)
(* daily cleanup job over uploads/ and outputs/; and of the browser page   *)
(* (app.js): its WebSocket, its reconnect timer and its current job.       *)
(*                                                                         *)
(* Node runs one handler at a time, so every callback is one atomic        *)
(* action; a handler that awaits (fs.access in convert and filter) is      *)
(* split at the await.  fluent-ffmpeg and the ws transport are external:   *)
(* the engine emits progress events at any time after run() and one        *)
(* terminal event; progress lines still buffered when the terminal event   *)
(* fires may be delivered after it.                                        *)
(***************************************************************************)
EXTENDS Integers, Sequences, FiniteSets, TLC

(* ---------------------------- bounds ---------------------------------- *)
\* Each specification bounds the job identifiers drawn (uuidv4), the
\* WebSocket connections accepted and the readings of the wall clock.
\* Spec: the routes, the engine events and the observers
MaxJobs == 1
MaxConns == 1
MaxTime == 1
\* SpecJobs: submissions, engine events and the clock
JobsMaxJobs == 1
JobsMaxTime == 1
\* SpecPush: observers and broadcasts
PushMaxJobs == 1
PushMaxConns == 2
\* SpecResub: one observer changing its subscription
ResubMaxJobs == 2
ResubMaxConns == 1
\* SpecSweep, SpecSweepFaulty: the cleanup job; the clock runs to
\* SweepMaxMs milliseconds past maxAge
SweepMaxJobs == 1
SweepMaxMs == 1
\* SpecQuery: job queries
QueryMaxJobs == 1
QueryMaxTime == 1
\* SpecMerge: merge submissions
MergeMaxJobs == 2
\* SpecStall: jobs among requests, observers and cleanup runs
StallMaxJobs == 2
StallMaxConns == 1
\* SpecFinish: observers of a command that ends with its terminal event
FinishMaxJobs == 1
FinishMaxConns == 2
\* SpecThumb: thumbnail requests beside a job and its observer
ThumbMaxJobs == 1
ThumbMaxConns == 1
\* SpecPage: the page, its connections and its job
PageMaxJobs == 1
PageMaxConns == 2
\* SpecDip: a command whose reported percentage falls
DipMaxJobs == 1
DipMaxConns == 1
DipMaxLog == 2
\* SpecLive: jobs whose commands end
LiveMaxJobs == 2
\* SpecShow: the page following its jobs, the deliveries recorded
ShowMaxJobs == 2
ShowMaxConns == 1
ShowMaxLog == 3
\* SpecMsg: client messages of every kind
MsgMaxJobs == 1
MsgMaxConns == 2
\* SpecFlight: several jobs in flight
FlightMaxJobs == 2
\* SpecOrder: observers of one job and the broadcasts recorded
OrderMaxJobs == 1
OrderMaxConns == 2
OrderMaxLog == 2

(* --------------------------- input sets ------------------------------- *)
\* a JavaScript undefined / missing string field
Undefined == "undefined"
\* no job identifier
NoJob == 0

Files == {"a.mp4", "b.mp4"}
\* the cases of the filter switch
SupportedFilters == {"watermark", "blur", "brightness", "contrast",
                     "saturation", "speed", "stabilize", "noise_reduction"}
\* engine progress objects; percent is kept in tenths of a percent
\* (495 is 49.5), and may be absent
ProgressObjs == {[frames |-> 1],
                 [frames |-> 1, percent |-> 495],
                 [frames |-> 1, percent |-> 1006]}

ErrMsgs == {"ffmpeg exited with code 1"}

VARIABLES
    uploads,            \* uploads/: file name -> birthtime
    outputs,            \* outputs/: file name -> birthtime
    sweep,              \* the cleanup job: idle, or the area and entries left
    activeJobs,         \* the activeJobs Map: job id -> job object
    nextId,             \* job identifiers drawn so far + 1
    pending,            \* convert / filter requests suspended at await fs.access
    engine,             \* started ffmpeg commands: job id -> "running" | "done"
    runs,               \* job id -> number of times a command was run for it
    activeConnections,  \* the activeConnections Map: connection id -> ws object
    connOrder,          \* insertion order of activeConnections (Map.forEach order)
    nextConn,           \* connection identifiers drawn so far + 1
    now,                \* the wall clock
    crashed,            \* the process died of an uncaught exception
    lastResponse,       \* the HTTP response sent by the last step, if any
    lastEvent,          \* the engine event handled by the last step, if any
    sent,               \* the ws.send calls made by the last step, in order
    lastSub,            \* per connection: last job the client asked to subscribe to
    prevSub,            \* per connection: the job it asked for before that
    issued,             \* the broadcastProgress calls recorded, in call order
    heard,              \* per connection: what it was sent since it last subscribed
    since,              \* per connection: Len(issued) when it last subscribed
    client              \* the browser page (FFmpegClient): its socket and job

vars == <<uploads, outputs, sweep, activeJobs, nextId, pending, engine, runs,
          activeConnections, connOrder, nextConn, now, crashed, lastResponse,
          lastEvent, sent, lastSub, prevSub, issued, heard, since, client>>

(* ------------------------- helpers ------------------------------------ *)
\* obj[k] = v on a JavaScript object: adds the property when absent
SetField(obj, k, v) ==
    [f \in DOMAIN obj \cup {k} |-> IF f = k THEN v ELSE obj[f]]

Has(obj, k) == k \in DOMAIN obj

\* Map.set(k, v)
MapSet(m, k, v) == [x \in DOMAIN m \cup {k} |-> IF x = k THEN v ELSE m[x]]

\* Map.delete(k)
MapDelete(m, k) == [x \in DOMAIN m \ {k} |-> m[x]]

\* !x for a string field of the request body
Falsy(x) == x = Undefined

\* Math.round on a value given in tenths: to the nearest integer, halves up
MathRound(tenths) == (tenths + 5) \div 10

\* Math.round(progress.percent || 0)
RoundPercent(progress) ==
    IF Has(progress, "percent") /\ progress.percent # 0
    THEN MathRound(progress.percent)
    ELSE 0

NoResponse == [status |-> 0, jobId |-> NoJob, missing |-> FALSE]
NoEvent == [type |-> "none", jobId |-> NoJob]

\* res.status(code).json(...): jobId is the identifier the body carries,
\* missing records whether the request named a file absent from uploads/
Response(code, jobId, missing) ==
    [status |-> code, jobId |-> jobId, missing |-> missing]

\* the effects a step has on the observation variables when it answers no
\* request, handles no engine event and sends nothing
NoOutput ==
    /\ lastResponse' = NoResponse
    /\ lastEvent' = NoEvent
    /\ sent' = <<>>

\* a request handler's outputs: one HTTP response, no engine event, no send
Respond(code, jobId, missing) ==
    /\ lastResponse' = Response(code, jobId, missing)
    /\ lastEvent' = NoEvent
    /\ sent' = <<>>

(* ------------------------- request bodies ----------------------------- *)
\* options.resolution is absent (Undefined) or a truthy value that is not a
\* string, on which options.resolution.split throws a TypeError.
\* request bodies tried on each route: a valid one naming a stored file, a
\* valid one naming a file that is not stored, and one per validation rule
ConvertBody(f, fmt, res) == [inputFile |-> f, outputFormat |-> fmt, resolution |-> res]
ConvertBodies ==
    {ConvertBody("a.mp4", "webm", Undefined),
     ConvertBody("b.mp4", "webm", Undefined),
     ConvertBody(Undefined, "webm", Undefined),
     ConvertBody("a.mp4", Undefined, Undefined),
     ConvertBody("a.mp4", "webm", "non-string")}

TrimBody(f, start, dur) == [inputFile |-> f, startTime |-> start, duration |-> dur]
TrimBodies ==
    {TrimBody("a.mp4", "00:00:30", "00:01:00"),
     TrimBody("b.mp4", "00:00:30", "00:01:00"),
     TrimBody(Undefined, "00:00:30", "00:01:00"),
     TrimBody("a.mp4", Undefined, "00:01:00"),
     TrimBody("a.mp4", "00:00:30", Undefined)}

\* inputFiles: absent, a string instead of an array, or an array of names
MergeBodies ==
    {[given |-> FALSE, isArray |-> FALSE, items |-> <<>>],
     [given |-> TRUE, isArray |-> FALSE, items |-> <<>>],
     [given |-> TRUE, isArray |-> TRUE, items |-> <<>>],
     [given |-> TRUE, isArray |-> TRUE, items |-> <<"a.mp4">>],
     [given |-> TRUE, isArray |-> TRUE, items |-> <<"a.mp4", "a.mp4">>],
     [given |-> TRUE, isArray |-> TRUE, items |-> <<"a.mp4", "b.mp4">>]}

FilterBody(f, t) == [inputFile |-> f, filterType |-> t]
FilterBodies ==
    {FilterBody("a.mp4", "blur"),
     FilterBody("b.mp4", "blur"),
     FilterBody("a.mp4", "sepia"),
     FilterBody(Undefined, "blur"),
     FilterBody("a.mp4", Undefined)}

\* path.parse(inputFile).name
Stem(f) == IF f = "a.mp4" THEN "a" ELSE "b"

\* await fs.access(path.join('uploads', f)) succeeds
Exists(f) == f \in DOMAIN uploads

(* --------------------------- job objects ------------------------------ *)
\* a generator that repeats the identifier it drew last
ReusedJobId == IF nextId > 1 THEN nextId - 1 ELSE nextId

\* uuidv4() for a job: an identifier never drawn before
NewJobId == nextId

\* a job object created in a state other than 'processing'
NewJobQueued(jobId, output) ==
    [id |-> jobId, status |-> "queued", outputFile |-> output,
     startTime |-> now, progress |-> 0]

\* the fields the job object literals of the four routes share; the routes
\* add inputFile or inputFiles, and filter adds filterType
NewJob(jobId, output) ==
    [id |-> jobId, status |-> "processing", outputFile |-> output,
     startTime |-> now, progress |-> 0]

ConvertOutput(jobId, body) == <<Stem(body.inputFile), "-", jobId, ".", body.outputFormat>>
TrimOutput(jobId, body) == <<"trimmed-", jobId, "-", body.inputFile>>
MergeOutput(jobId) == <<"merged-", jobId, ".mp4">>
FilterOutput(jobId, body) == <<"filtered_", body.filterType, "_", jobId, "_", body.inputFile>>

\* command.run() / mergeToFile(): the ffmpeg process is spawned
StartEngine(jobId) == MapSet(engine, jobId, "running")

\* the number of commands run for a job so far
Runs(jobId) == IF jobId \in DOMAIN runs THEN runs[jobId] ELSE 0

\* the run() / mergeToFile() call that ends a route's command chain
Launch(jobId) ==
    /\ engine' = StartEngine(jobId)
    /\ runs' = MapSet(runs, jobId, Runs(jobId) + 1)

\* terminal handlers that run the command again
Relaunched(jobId) == StartEngine(jobId)

\* the commands once job jobId's command has emitted its terminal event:
\* its process has exited, and the 'end' and 'error' handlers run nothing
Exited(jobId) == [engine EXCEPT ![jobId] = "done"]

(* --------------------------- cleanup job ------------------------------ *)
\* const maxAge = 7 * 24 * 60 * 60 * 1000, in milliseconds
maxAge == 7 * 24 * 60 * 60 * 1000

\* no cleanup job is running
Idle == [phase |-> "idle"]

\* a test that also takes a file of exactly the maximal age
ExpiredAtMaxAge(birthtime, at) == at - birthtime >= maxAge

\* now - stats.birthtime.getTime() > maxAge
Expired(birthtime, at) == at - birthtime > maxAge

\* the ways the stat / unlink pair of one entry may go: both succeed, or
\* fs.stat rejects, or fs.unlink rejects (EACCES, EPERM, EISDIR, ...)
NoFault == {"none"}
Faults == {"none", "stat", "unlink"}

\* the callback after readdir('uploads') resolved with the given names
Sweeping(area, at, names, gone, goneOut) ==
    [phase |-> area, now |-> at, todo |-> names,
     removed |-> gone, removedOut |-> goneOut]

\* the callback once an entry of its loop is done: the next entry, or past
\* the uploads loop readdir('outputs'), or past the outputs loop the end
Continue(area, at, names, gone, goneOut) ==
    IF names # {} THEN Sweeping(area, at, names, gone, goneOut)
    ELSE IF area = "uploads" THEN Sweeping("readdir", at, {}, gone, goneOut)
    ELSE Idle

\* the run ended normally / in the catch block
Swept(at, gone, goneOut) ==
    [type |-> "swept", jobId |-> NoJob, at |-> at,
     removed |-> gone, removedOut |-> goneOut]
Aborted(at, area, file) ==
    [type |-> "aborted", jobId |-> NoJob, at |-> at, area |-> area, file |-> file]

\* a cleanup that forgets the jobs whose input or output file it removed
DropJobsOf(area, file) ==
    [j \in {k \in DOMAIN activeJobs :
               IF area = "uploads"
               THEN ~(Has(activeJobs[k], "inputFile")
                      /\ activeJobs[k].inputFile = file)
               ELSE activeJobs[k].outputFile # file} |-> activeJobs[j]]

\* the job store after the cleanup removed a file: the callback never
\* refers to activeJobs
SweptJobs(area, file) == activeJobs

(* ---------------------------- Init ------------------------------------ *)
\* the page after the FFmpegClient constructor: this.ws = null and
\* this.currentJobId = null.  ws counts the WebSocket objects created (the
\* n-th is the n-th connection the server accepts), asked is the job of the
\* last subscribe sent on the current socket, timer the pending reconnect,
\* shown the percentage of the progress bar and shownFor the job it was
\* set for
Loaded ==
    [ws |-> 0, readyState |-> "NONE", currentJobId |-> NoJob,
     asked |-> NoJob, timer |-> FALSE, shown |-> 0, shownFor |-> NoJob]

\* the state of a start at the given time, with the given files in uploads/
\* since time 0 (the directory outlives the process) and nothing else
StartedAt(files, at) ==
    /\ uploads = [f \in files |-> 0]
    /\ outputs = <<>>
    /\ sweep = Idle
    /\ activeJobs = <<>>
    /\ nextId = 1
    /\ pending = {}
    /\ engine = <<>>
    /\ runs = <<>>
    /\ activeConnections = <<>>
    /\ connOrder = <<>>
    /\ nextConn = 1
    /\ now = at
    /\ crashed = FALSE
    /\ lastResponse = NoResponse
    /\ lastEvent = NoEvent
    /\ sent = <<>>
    /\ lastSub = <<>>
    /\ prevSub = <<>>
    /\ issued = <<>>
    /\ heard = <<>>
    /\ since = <<>>
    /\ client = Loaded

Started(files) == StartedAt(files, 0)

\* a first start: uploads/ is empty
Init == Started({})

\* a start with a.mp4 already uploaded and b.mp4 not
InitStored == Started({"a.mp4"})

\* a start with a.mp4 uploaded more than seven days before
InitAged == StartedAt({"a.mp4"}, maxAge + 1)

\* the files of both areas and the cleanup job
fsVars == <<uploads, outputs, sweep>>
\* the connection registry and what the clients asked for
regVars == <<activeConnections, connOrder, nextConn, lastSub, prevSub>>
\* the record of broadcasts and deliveries
logVars == <<issued, heard, since>>
connVars == <<regVars, logVars>>

(* ------------------------ storage and clock --------------------------- *)
\* POST /api/upload: multer stores the file under uploads/
Upload(f) ==
    /\ ~crashed
    /\ f \notin DOMAIN uploads
    /\ uploads' = MapSet(uploads, f, now)
    /\ Respond(200, NoJob, FALSE)
    /\ UNCHANGED <<outputs, sweep, activeJobs, nextId, pending, engine, runs,
                   connVars, now, crashed, client>>

\* time passes between two readings of new Date()
Tick(maxTime) ==
    /\ ~crashed
    /\ now < maxTime
    /\ now' = now + 1
    /\ NoOutput
    /\ UNCHANGED <<fsVars, activeJobs, nextId, pending, engine, runs, connVars, crashed, client>>

\* time passes: a millisecond, or the time after which a file expires
Durations == {1, maxAge}
Elapse(d, maxMs) ==
    /\ ~crashed
    /\ now + d <= maxAge + maxMs
    /\ d = 1 => now % maxAge < maxMs
    /\ now' = now + d
    /\ NoOutput
    /\ UNCHANGED <<fsVars, activeJobs, nextId, pending, engine, runs, connVars, crashed, client>>

\* ffmpeg creates the output file of a running command
EngineWrites(j) ==
    /\ ~crashed
    /\ j \in DOMAIN engine /\ engine[j] = "running"
    /\ activeJobs[j].outputFile \notin DOMAIN outputs
    /\ outputs' = MapSet(outputs, activeJobs[j].outputFile, now)
    /\ NoOutput
    /\ UNCHANGED <<uploads, sweep, activeJobs, nextId, pending, engine, runs,
                   connVars, now, crashed, client>>

(* ----------------- cron.schedule('0 0 * * *', ...) -------------------- *)
\* the callback is called: Date.now(), then readdir('uploads')
SweepStart ==
    /\ ~crashed
    /\ sweep = Idle
    /\ sweep' = Continue("uploads", now, DOMAIN uploads, {}, {})
    /\ NoOutput
    /\ UNCHANGED <<uploads, outputs, activeJobs, nextId, pending, engine, runs,
                   connVars, now, crashed, client>>

\* readdir('outputs') resolves
SweepOutputs ==
    /\ ~crashed
    /\ sweep.phase = "readdir"
    /\ sweep' = Continue("outputs", sweep.now, DOMAIN outputs,
                         sweep.removed, sweep.removedOut)
    /\ lastEvent' = IF sweep' = Idle
                    THEN Swept(sweep.now, sweep.removed, sweep.removedOut)
                    ELSE NoEvent
    /\ lastResponse' = NoResponse
    /\ sent' = <<>>
    /\ UNCHANGED <<uploads, outputs, activeJobs, nextId, pending, engine, runs,
                   connVars, now, crashed, client>>

\* one turn of the uploads loop: fs.stat, and fs.unlink when the file is
\* too old; a rejection of either leaves the try block
SweepUpload(file, fault) ==
    /\ ~crashed
    /\ sweep.phase = "uploads"
    /\ file \in sweep.todo
    /\ IF fault = "stat" \/ (fault = "unlink" /\ Expired(uploads[file], sweep.now))
       THEN /\ sweep' = Idle
            /\ lastEvent' = Aborted(sweep.now, "uploads", file)
            /\ UNCHANGED <<uploads, activeJobs>>
       ELSE IF Expired(uploads[file], sweep.now)
            THEN /\ uploads' = MapDelete(uploads, file)
                 /\ activeJobs' = SweptJobs("uploads", file)
                 /\ sweep' = Continue("uploads", sweep.now, sweep.todo \ {file},
                                      sweep.removed \cup {file}, sweep.removedOut)
                 /\ lastEvent' = NoEvent
            ELSE /\ sweep' = Continue("uploads", sweep.now, sweep.todo \ {file},
                                      sweep.removed, sweep.removedOut)
                 /\ lastEvent' = NoEvent
                 /\ UNCHANGED <<uploads, activeJobs>>
    /\ lastResponse' = NoResponse
    /\ sent' = <<>>
    /\ UNCHANGED <<outputs, nextId, pending, engine, runs, connVars, now, crashed, client>>

\* one turn of the outputs loop
SweepOutput(file, fault) ==
    /\ ~crashed
    /\ sweep.phase = "outputs"
    /\ file \in sweep.todo
    /\ IF fault = "stat" \/ (fault = "unlink" /\ Expired(outputs[file], sweep.now))
       THEN /\ sweep' = Idle
            /\ lastEvent' = Aborted(sweep.now, "outputs", file)
            /\ UNCHANGED <<outputs, activeJobs>>
       ELSE IF Expired(outputs[file], sweep.now)
            THEN /\ outputs' = MapDelete(outputs, file)
                 /\ activeJobs' = SweptJobs("outputs", file)
                 /\ sweep' = Continue("outputs", sweep.now, sweep.todo \ {file},
                                      sweep.removed, sweep.removedOut \cup {file})
                 /\ lastEvent' = IF sweep' = Idle
                                 THEN Swept(sweep.now, sweep.removed,
                                            sweep.removedOut \cup {file})
                                 ELSE NoEvent
            ELSE /\ sweep' = Continue("outputs", sweep.now, sweep.todo \ {file},
                                      sweep.removed, sweep.removedOut)
                 /\ lastEvent' = IF sweep' = Idle
                                 THEN Swept(sweep.now, sweep.removed, sweep.removedOut)
                                 ELSE NoEvent
                 /\ UNCHANGED <<outputs, activeJobs>>
    /\ lastResponse' = NoResponse
    /\ sent' = <<>>
    /\ UNCHANGED <<uploads, nextId, pending, engine, runs, connVars, now, crashed, client>>

(* ------------------------- POST /api/convert -------------------------- *)
\* up to the suspension at await fs.access(inputPath)
ConvertBegin(body, maxJobs) ==
    /\ ~crashed
    /\ IF Falsy(body.inputFile) \/ Falsy(body.outputFormat)
       THEN /\ Respond(400, NoJob, FALSE)
            /\ UNCHANGED <<nextId, pending>>
       ELSE /\ nextId <= maxJobs
            /\ nextId' = nextId + 1
            /\ pending' = pending \cup
                 {[kind |-> "convert", jobId |-> NewJobId, body |-> body,
                   found |-> Exists(body.inputFile)]}
            /\ NoOutput
    /\ UNCHANGED <<fsVars, activeJobs, engine, runs, connVars, now, crashed, client>>

\* from the resolution of fs.access to the response
ConvertFinish(r) ==
    /\ ~crashed
    /\ r \in pending /\ r.kind = "convert"
    /\ pending' = pending \ {r}
    /\ IF ~r.found
       THEN /\ Respond(404, NoJob, TRUE)
            /\ UNCHANGED <<activeJobs, engine, runs>>
       ELSE /\ activeJobs' = MapSet(activeJobs, r.jobId,
                 SetField(NewJob(r.jobId, ConvertOutput(r.jobId, r.body)),
                          "inputFile", r.body.inputFile))
            /\ IF r.body.resolution = Undefined
               THEN /\ Launch(r.jobId)
                    /\ Respond(200, r.jobId, FALSE)
               ELSE \* options.resolution.split throws: the catch answers 500
                    /\ UNCHANGED <<engine, runs>>
                    /\ Respond(500, NoJob, FALSE)
    /\ UNCHANGED <<fsVars, nextId, connVars, now, crashed, client>>

(* --------------------------- POST /api/trim --------------------------- *)
Trim(body, maxJobs) ==
    /\ ~crashed
    /\ IF Falsy(body.inputFile) \/ Falsy(body.startTime) \/ Falsy(body.duration)
       THEN /\ Respond(400, NoJob, FALSE)
            /\ UNCHANGED <<nextId, activeJobs, engine, runs>>
       ELSE /\ nextId <= maxJobs
            /\ nextId' = nextId + 1
            /\ activeJobs' = MapSet(activeJobs, NewJobId,
                 SetField(NewJob(NewJobId, TrimOutput(NewJobId, body)),
                          "inputFile", body.inputFile))
            /\ Launch(NewJobId)
            /\ Respond(200, NewJobId, ~Exists(body.inputFile))
    /\ UNCHANGED <<fsVars, pending, connVars, now, crashed, client>>

(* -------------------------- POST /api/merge --------------------------- *)
\* a validation that lets a list of one file through
SingleInputAllowed(body) == ~body.given \/ ~body.isArray \/ Len(body.items) < 1

\* !inputFiles || !Array.isArray(inputFiles) || inputFiles.length < 2
InvalidInputFiles(body) == ~body.given \/ ~body.isArray \/ Len(body.items) < 2

Merge(body, maxJobs) ==
    /\ ~crashed
    /\ IF InvalidInputFiles(body)
       THEN /\ Respond(400, NoJob, FALSE)
            /\ UNCHANGED <<nextId, activeJobs, engine, runs>>
       ELSE /\ nextId <= maxJobs
            /\ nextId' = nextId + 1
            /\ activeJobs' = MapSet(activeJobs, NewJobId,
                 SetField(NewJob(NewJobId, MergeOutput(NewJobId)),
                          "inputFiles", body.items))
            /\ Launch(NewJobId)
            /\ Respond(200, NewJobId,
                       \E i \in 1..Len(body.items) : ~Exists(body.items[i]))
    /\ UNCHANGED <<fsVars, pending, connVars, now, crashed, client>>

(* -------------------------- POST /api/filter -------------------------- *)
\* up to the suspension at await fs.access(inputPath)
FilterBegin(body, maxJobs) ==
    /\ ~crashed
    /\ IF Falsy(body.inputFile) \/ Falsy(body.filterType)
       THEN /\ Respond(400, NoJob, FALSE)
            /\ UNCHANGED <<nextId, pending>>
       ELSE /\ nextId <= maxJobs
            /\ nextId' = nextId + 1
            /\ pending' = pending \cup
                 {[kind |-> "filter", jobId |-> NewJobId, body |-> body,
                   found |-> Exists(body.inputFile)]}
            /\ NoOutput
    /\ UNCHANGED <<fsVars, activeJobs, engine, runs, connVars, now, crashed, client>>

\* from the resolution of fs.access to the response: the job is stored
\* before the switch on filterType, whose default case answers 400
FilterFinish(r) ==
    /\ ~crashed
    /\ r \in pending /\ r.kind = "filter"
    /\ pending' = pending \ {r}
    /\ IF ~r.found
       THEN /\ Respond(404, NoJob, TRUE)
            /\ UNCHANGED <<activeJobs, engine, runs>>
       ELSE /\ activeJobs' = MapSet(activeJobs, r.jobId,
                 SetField(SetField(NewJob(r.jobId, FilterOutput(r.jobId, r.body)),
                                   "inputFile", r.body.inputFile),
                          "filterType", r.body.filterType))
            /\ IF r.body.filterType \in SupportedFilters
               THEN /\ Launch(r.jobId)
                    /\ Respond(200, r.jobId, FALSE)
               ELSE /\ UNCHANGED <<engine, runs>>
                    /\ Respond(400, NoJob, FALSE)
    /\ UNCHANGED <<fsVars, nextId, connVars, now, crashed, client>>

(* -------------------- POST /api/thumbnail/:filename ------------------- *)
\* a thumbnail request suspended at await fs.access, or at the await of
\* its ffmpeg command
Thumbnail(kind, filename) ==
    [kind |-> kind, jobId |-> NoJob, body |-> [inputFile |-> filename],
     found |-> Exists(filename)]

\* res.json / res.status(code).json of the thumbnail route
ThumbnailResponse(code, filename, missing) ==
    [status |-> code, jobId |-> NoJob, missing |-> missing,
     thumbnail |-> filename]

\* a thumbnail route that tracks its command as a job
ThumbnailTracked(filename) ==
    MapSet(activeJobs, nextId, NewJob(nextId, <<"thumb_", filename>>))

\* the Job Store after a step of the thumbnail route: the route does not
\* refer to activeJobs
ThumbnailJobs(filename) == activeJobs

\* up to the suspension at await fs.access(inputPath); one request per file
\* name is in flight at a time
ThumbnailBegin(filename) ==
    /\ ~crashed
    /\ \A r \in pending :
         r.kind \in {"thumbnail", "thumbnailRun"} => r.body.inputFile # filename
    /\ pending' = pending \cup {Thumbnail("thumbnail", filename)}
    /\ activeJobs' = ThumbnailJobs(filename)
    /\ NoOutput
    /\ UNCHANGED <<fsVars, nextId, engine, runs, connVars, now, crashed, client>>

\* fs.access settles: 404 when it rejects, else the ffmpeg command is run
\* and the handler awaits its 'end' or 'error'
ThumbnailAccessed(r) ==
    /\ ~crashed
    /\ r \in pending /\ r.kind = "thumbnail"
    /\ activeJobs' = ThumbnailJobs(r.body.inputFile)
    /\ IF ~r.found
       THEN /\ pending' = pending \ {r}
            /\ lastResponse' = ThumbnailResponse(404, r.body.inputFile, TRUE)
       ELSE /\ pending' = (pending \ {r})
                             \cup {[r EXCEPT !.kind = "thumbnailRun"]}
            /\ lastResponse' = NoResponse
    /\ lastEvent' = NoEvent
    /\ sent' = <<>>
    /\ UNCHANGED <<fsVars, nextId, engine, runs, connVars, now, crashed, client>>

\* the command's 'end' (resolve) or 'error' (reject): 200 with the name of
\* the thumbnail, or 500 from the catch block
ThumbnailSettled(r, ok) ==
    /\ ~crashed
    /\ r \in pending /\ r.kind = "thumbnailRun"
    /\ pending' = pending \ {r}
    /\ activeJobs' = ThumbnailJobs(r.body.inputFile)
    /\ lastResponse' = ThumbnailResponse(IF ok THEN 200 ELSE 500,
                                         r.body.inputFile, FALSE)
    /\ lastEvent' = NoEvent
    /\ sent' = <<>>
    /\ UNCHANGED <<fsVars, nextId, engine, runs, connVars, now, crashed, client>>

(* ---------------- connection registry and broadcaster ----------------- *)
\* ws.jobId, undefined until the first subscribe
Subscription(ws) == IF Has(ws, "jobId") THEN ws.jobId ELSE NoJob

\* a broadcast that does not look at the subscription
MatchesAnyJob(ws, jobId) == ws.readyState = "OPEN"

\* a broadcast that does not look at the state of the transport
MatchesSubscribed(ws, jobId) == Subscription(ws) = jobId

\* the test of broadcastProgress on one registered connection
Matches(ws, jobId) == Subscription(ws) = jobId /\ ws.readyState = "OPEN"

\* the message broadcastProgress serialises
ProgressMessage(c, jobId, progress) ==
    [conn |-> c, type |-> "progress", jobId |-> jobId, progress |-> progress]

RECURSIVE SendAll(_, _, _)
\* activeConnections.forEach: the ws.send calls, in insertion order
SendAll(order, jobId, progress) ==
    IF order = <<>> THEN <<>>
    ELSE (IF Matches(activeConnections[Head(order)], jobId)
          THEN <<ProgressMessage(Head(order), jobId, progress)>>
          ELSE <<>>) \o SendAll(Tail(order), jobId, progress)

\* a broadcast that stops at the first subscriber
broadcastToFirst(jobId, progress) ==
    LET to == SelectSeq(connOrder,
                        LAMBDA c : Matches(activeConnections[c], jobId))
    IN IF to = <<>> THEN <<>>
       ELSE <<ProgressMessage(Head(to), jobId, progress)>>

\* broadcastProgress(jobId, progress)
broadcastProgress(jobId, progress) == SendAll(connOrder, jobId, progress)

\* messages a client may send: a subscribe for a job identifier it was
\* given or for one that names no job, a subscribe without jobId, a
\* message of another type, and text that is not JSON
UnknownJob == -1
Subscribes == {[json |-> TRUE, type |-> "subscribe", jobId |-> j] :
                 j \in DOMAIN activeJobs}
WsMessages ==
    Subscribes
    \cup {[json |-> TRUE, type |-> "subscribe", jobId |-> UnknownJob],
          [json |-> TRUE, type |-> "subscribe"],
          [json |-> TRUE, type |-> "ping"],
          [json |-> FALSE]}

IsSubscribe(m) == m.json /\ m.type = "subscribe" /\ Has(m, "jobId")

\* a handler that keeps the first subscription of a connection
OnMessageFirstWins(ws, data) ==
    IF data.type = "subscribe" /\ Has(data, "jobId") /\ ~Has(ws, "jobId")
    THEN SetField(ws, "jobId", data.jobId)
    ELSE ws

\* the body of ws.on('message') after JSON.parse succeeded
OnMessage(ws, data) ==
    IF data.type = "subscribe" /\ Has(data, "jobId")
    THEN SetField(ws, "jobId", data.jobId)
    ELSE ws

\* wss.on('connection')
WsConnect(maxConns) ==
    /\ ~crashed
    /\ nextConn <= maxConns
    /\ nextConn' = nextConn + 1
    /\ activeConnections' = MapSet(activeConnections, nextConn, [readyState |-> "OPEN"])
    /\ connOrder' = Append(connOrder, nextConn)
    /\ lastSub' = MapSet(lastSub, nextConn, NoJob)
    /\ prevSub' = MapSet(prevSub, nextConn, NoJob)
    /\ heard' = MapSet(heard, nextConn, <<>>)
    /\ since' = MapSet(since, nextConn, Len(issued))
    /\ NoOutput
    /\ UNCHANGED <<fsVars, activeJobs, nextId, pending, engine, runs, now, crashed, client,
                   issued>>

\* ws.on('message'): JSON.parse throws on text that is not JSON, and
\* nothing catches it
HandleMessage(c, m) ==
    /\ ~crashed
    /\ c \in DOMAIN activeConnections
    /\ activeConnections[c].readyState = "OPEN"
    /\ IF m.json
       THEN /\ activeConnections' =
                 [activeConnections EXCEPT ![c] = OnMessage(@, m)]
            /\ crashed' = crashed
       ELSE /\ crashed' = TRUE
            /\ activeConnections' = activeConnections
    /\ lastSub' = IF IsSubscribe(m) THEN [lastSub EXCEPT ![c] = m.jobId]
                                    ELSE lastSub
    /\ heard' = IF IsSubscribe(m) THEN [heard EXCEPT ![c] = <<>>] ELSE heard
    /\ since' = IF IsSubscribe(m) THEN [since EXCEPT ![c] = Len(issued)]
                                  ELSE since
    /\ NoOutput
    /\ UNCHANGED <<fsVars, activeJobs, nextId, pending, engine, runs, connOrder,
                   nextConn, now, client, issued>>

\* a message arrives; the job the client asked for before is not recorded
WsMessage(c, m) == HandleMessage(c, m) /\ UNCHANGED prevSub

\* a message arrives; the job the client asked for before is recorded
WsMessageTracked(c, m) ==
    /\ HandleMessage(c, m)
    /\ prevSub' = IF IsSubscribe(m) THEN [prevSub EXCEPT ![c] = lastSub[c]]
                                    ELSE prevSub

\* the transport stops being open (close frame or socket end) before the
\* 'close' event is emitted
WsClosing(c) ==
    /\ ~crashed
    /\ c \in DOMAIN activeConnections
    /\ activeConnections[c].readyState = "OPEN"
    /\ activeConnections' = [activeConnections EXCEPT ![c].readyState = "CLOSING"]
    /\ NoOutput
    /\ UNCHANGED <<fsVars, activeJobs, nextId, pending, engine, runs, connOrder,
                   nextConn, now, crashed, client, lastSub, prevSub, logVars>>

\* a connection-level error on an open connection.  ws answers a socket
\* error by destroying the socket (the 'close' event follows) and a frame
\* error by emitting 'error' on the ws object; no ws.on('error') listener is
\* registered, so that emit throws and nothing catches it
ErrorKinds == {"socket", "frame"}
WsError(c, kind) ==
    /\ ~crashed
    /\ c \in DOMAIN activeConnections
    /\ activeConnections[c].readyState = "OPEN"
    /\ activeConnections' = [activeConnections EXCEPT ![c].readyState = "CLOSING"]
    /\ crashed' = (kind = "frame")
    /\ lastEvent' = [type |-> "connError", jobId |-> NoJob, conn |-> c]
    /\ lastResponse' = NoResponse
    /\ sent' = <<>>
    /\ UNCHANGED <<fsVars, activeJobs, nextId, pending, engine, runs, connOrder,
                   nextConn, now, client, lastSub, prevSub, logVars>>

\* ws.on('close')
WsClose(c) ==
    /\ ~crashed
    /\ c \in DOMAIN activeConnections
    /\ activeConnections' = MapDelete(activeConnections, c)
    /\ connOrder' = SelectSeq(connOrder, LAMBDA x : x # c)
    /\ lastSub' = MapDelete(lastSub, c)
    /\ prevSub' = MapDelete(prevSub, c)
    /\ heard' = MapDelete(heard, c)
    /\ since' = MapDelete(since, c)
    /\ NoOutput
    /\ UNCHANGED <<fsVars, activeJobs, nextId, pending, engine, runs, nextConn,
                   now, crashed, client, issued>>

(* ------------------------- GET /api/job/:jobId ------------------------ *)
\* a response that carries only the identifier and the status
JobBrief(job) == [id |-> job.id, status |-> job.status]

\* res.json(job): the job's own properties; each value is a string or a
\* finite number, which JSON keeps as it is
JobBody(job) == job

\* the identifiers a client may ask for: those drawn so far, the next one,
\* and one that is never drawn
Queries == (1..nextId) \cup {UnknownJob}

GetJob(id) ==
    /\ ~crashed
    /\ lastResponse' =
         IF id \in DOMAIN activeJobs
         THEN [status |-> 200, jobId |-> NoJob, missing |-> FALSE,
               query |-> id, body |-> JobBody(activeJobs[id])]
         ELSE [status |-> 404, jobId |-> NoJob, missing |-> FALSE, query |-> id]
    /\ lastEvent' = NoEvent
    /\ sent' = <<>>
    /\ UNCHANGED <<fsVars, activeJobs, nextId, pending, engine, runs, connVars,
                   now, crashed, client>>

(* ----------------------- engine event handlers ------------------------ *)
\* a progress handler that also marks the job as processing
OnProgressReopens(job, progress) ==
    SetField(SetField(job, "progress", RoundPercent(progress)),
             "status", "processing")

\* a progress handler that takes a full percentage for the end of the job
OnProgressFinishes(job, progress) ==
    SetField(SetField(job, "progress", RoundPercent(progress)),
             "status", "completed")

\* a progress handler that never lets the stored value fall
OnProgressMonotonic(job, progress) ==
    SetField(job, "progress",
             IF RoundPercent(progress) > job.progress
             THEN RoundPercent(progress) ELSE job.progress)

\* .on('progress'): job.progress = Math.round(progress.percent || 0)
OnProgress(job, progress) == SetField(job, "progress", RoundPercent(progress))

\* an 'end' handler that leaves the last reported progress
OnEndKeepsProgress(job) ==
    SetField(SetField(job, "status", "completed"), "endTime", now)

\* an 'end' handler that names the output only once it exists
OnEndNamesOutput(job) ==
    SetField(SetField(SetField(SetField(job, "status", "completed"),
                               "endTime", now),
                      "progress", 100),
             "outputFile", <<"done-", job.id>>)

\* .on('end')
OnEnd(job) ==
    SetField(SetField(SetField(job, "status", "completed"),
                      "endTime", now),
             "progress", 100)

\* an 'error' handler that does not record when the job ended
OnErrorNoEndTime(job, message) ==
    SetField(SetField(job, "status", "failed"), "error", message)

\* an 'error' handler that does not record the cause
OnErrorNoMessage(job, message) ==
    SetField(SetField(job, "status", "failed"), "endTime", now)

\* .on('error')
OnError(job, message) ==
    SetField(SetField(SetField(job, "status", "failed"),
                      "error", message),
             "endTime", now)

\* a 'progress' handler that broadcasts before it writes the record
BroadcastBeforeWrite(jobId, progress) ==
    broadcastProgress(jobId, activeJobs[jobId].progress)

\* what the 'progress' handler broadcasts: job.progress, read after the
\* assignment
ProgressBroadcast(jobId, progress) ==
    broadcastProgress(jobId, OnProgress(activeJobs[jobId], progress).progress)

\* an 'end' handler that announces the completion twice
EndBroadcastsTwice(jobId) ==
    broadcastProgress(jobId, 100) \o broadcastProgress(jobId, 100)

\* what the 'end' handler broadcasts
EndBroadcast(jobId) == broadcastProgress(jobId, 100)

\* an 'error' handler that pushes the last progress to the subscribers
ErrorBroadcastsProgress(jobId) ==
    broadcastProgress(jobId, activeJobs[jobId].progress)

\* what the 'error' handler broadcasts: nothing
ErrorBroadcast(jobId) == <<>>

\* an engine failure that fails every job still processing
FailAllJobs(jobId, message) ==
    [k \in DOMAIN activeJobs |->
        IF activeJobs[k].status = "processing"
        THEN OnError(activeJobs[k], message)
        ELSE activeJobs[k]]

\* the store after the 'error' handler of job jobId: the handler closes
\* over its own job object and touches no other
FailJob(jobId, message) ==
    [activeJobs EXCEPT ![jobId] = OnError(@, message)]

\* a progress event of job j's command; the handler closes over the job
\* object stored in activeJobs
HandleProgress(j, progress) ==
    /\ ~crashed
    /\ j \in DOMAIN engine
    /\ activeJobs' = [activeJobs EXCEPT ![j] = OnProgress(@, progress)]
    /\ sent' = ProgressBroadcast(j, progress)
    /\ lastEvent' = [type |-> "progress", jobId |-> j, progress |-> progress]
    /\ lastResponse' = NoResponse
    /\ UNCHANGED <<fsVars, nextId, pending, engine, runs, regVars, now, crashed, client>>

\* the single 'end' event of a command
HandleEnd(j) ==
    /\ ~crashed
    /\ j \in DOMAIN engine /\ engine[j] = "running"
    /\ engine' = Exited(j)
    /\ activeJobs' = [activeJobs EXCEPT ![j] = OnEnd(@)]
    /\ sent' = EndBroadcast(j)
    /\ lastEvent' = [type |-> "end", jobId |-> j]
    /\ lastResponse' = NoResponse
    /\ UNCHANGED <<fsVars, nextId, pending, runs, regVars, now, crashed, client>>

\* the engine events, the broadcasts not recorded
EngineProgress(j, progress) == HandleProgress(j, progress) /\ UNCHANGED logVars
EngineEnd(j) == HandleEnd(j) /\ UNCHANGED logVars

\* a progress event of a command that has not emitted its terminal event
EngineProgressLive(j, progress) ==
    /\ j \in DOMAIN engine /\ engine[j] = "running"
    /\ EngineProgress(j, progress)

\* the single 'error' event of a command
EngineError(j, message) ==
    /\ ~crashed
    /\ j \in DOMAIN engine /\ engine[j] = "running"
    /\ engine' = Exited(j)
    /\ activeJobs' = FailJob(j, message)
    /\ sent' = ErrorBroadcast(j)
    /\ lastEvent' = [type |-> "error", jobId |-> j, message |-> message]
    /\ lastResponse' = NoResponse
    /\ UNCHANGED <<fsVars, nextId, pending, runs, connVars, now, crashed, client>>

\* the messages of one broadcast that went to connection c
SentTo(c) == SelectSeq(sent', LAMBDA m : m.conn = c)

\* the record of a step that called broadcastProgress(jobId, progress):
\* the call, and per connection the ws.send calls made on it
Recorded(maxLog) ==
    /\ Len(issued) < maxLog
    /\ issued' = Append(issued, [jobId |-> lastEvent'.jobId,
                                 progress |-> activeJobs'[lastEvent'.jobId].progress])
    /\ heard' = [c \in DOMAIN heard |->
                   heard[c] \o [i \in 1..Len(SentTo(c)) |->
                                  [jobId |-> SentTo(c)[i].jobId,
                                   progress |-> SentTo(c)[i].progress]]]
    /\ since' = since

\* the engine events, the broadcasts recorded
ProgressRecorded(j, progress, maxLog) == HandleProgress(j, progress) /\ Recorded(maxLog)
EndRecorded(j, maxLog) == HandleEnd(j) /\ Recorded(maxLog)

(* --------------------- the browser page (app.js) ---------------------- *)
\* a step of the page: the server's state stays, nothing is answered,
\* handled or sent by the server
PageOnly ==
    /\ NoOutput
    /\ UNCHANGED <<fsVars, activeJobs, nextId, pending, engine, runs, connVars,
                   now, crashed>>

\* setupWebSocket(): called by init() and by the reconnect timer; the page
\* replaces this.ws by a new WebSocket
SetupWebSocket ==
    /\ client.readyState = "NONE" \/ client.timer
    /\ client' = [client EXCEPT !.ws = @ + 1, !.readyState = "CONNECTING",
                                !.asked = NoJob, !.timer = FALSE]
    /\ PageOnly

\* the server accepts the connection the page is opening
PageAccepted(maxConns) ==
    /\ client.readyState = "CONNECTING"
    /\ nextConn = client.ws
    /\ WsConnect(maxConns)

\* ws.onopen: logs
PageOnOpen ==
    /\ client.readyState = "CONNECTING"
    /\ nextConn > client.ws
    /\ client' = [client EXCEPT !.readyState = "OPEN"]
    /\ PageOnly

\* the page reads the answer to its submission of job jobId:
\* this.currentJobId = result.jobId; this.subscribeToJob(result.jobId),
\* which sends only on an open socket; showProgressModal() sets the bar
\* to 0%
PageOnResult(jobId) ==
    /\ jobId \in DOMAIN activeJobs
    /\ jobId = client.currentJobId + 1
    /\ client' = [client EXCEPT
                    !.currentJobId = jobId,
                    !.asked = IF client.readyState = "OPEN" THEN jobId ELSE @,
                    !.shown = 0,
                    !.shownFor = jobId]
    /\ PageOnly

\* ws.onmessage for the i-th message the server has just sent:
\* if (data.type === 'progress') this.updateProgress(data.progress)
PageOnMessage(i) ==
    /\ i \in 1..Len(sent)
    /\ sent[i].conn = client.ws
    /\ client.readyState = "OPEN"
    /\ client' = [client EXCEPT !.shown = sent[i].progress,
                                !.shownFor = sent[i].jobId]
    /\ PageOnly

\* the subscribe message the page sent on its socket reaches the server
PageSubscribeArrives ==
    /\ client.asked # NoJob
    /\ client.ws \in DOMAIN activeConnections
    /\ Subscription(activeConnections[client.ws]) # client.asked
    /\ WsMessage(client.ws, [json |-> TRUE, type |-> "subscribe",
                             jobId |-> client.asked])

\* ws.onclose: setTimeout(() => this.setupWebSocket(), 3000)
PageOnClose ==
    /\ client.readyState = "OPEN"
    /\ client' = [client EXCEPT !.readyState = "CLOSED", !.timer = TRUE]
    /\ PageOnly

(* -------------------------- specification ----------------------------- *)
\* the routes, the engine events and the observers
Next ==
    \/ \E f \in Files : Upload(f)
    \/ Tick(MaxTime)
    \/ \E body \in ConvertBodies : ConvertBegin(body, MaxJobs)
    \/ \E r \in pending : ConvertFinish(r)
    \/ \E body \in TrimBodies : Trim(body, MaxJobs)
    \/ \E body \in MergeBodies : Merge(body, MaxJobs)
    \/ \E body \in FilterBodies : FilterBegin(body, MaxJobs)
    \/ \E r \in pending : FilterFinish(r)
    \/ WsConnect(MaxConns)
    \/ \E c \in DOMAIN activeConnections : \E m \in WsMessages : WsMessageTracked(c, m)
    \/ \E c \in DOMAIN activeConnections : WsClosing(c)
    \/ \E c \in DOMAIN activeConnections : \E k \in ErrorKinds : WsError(c, k)
    \/ \E c \in DOMAIN activeConnections : WsClose(c)
    \/ \E j \in DOMAIN engine : \E p \in ProgressObjs : EngineProgress(j, p)
    \/ \E j \in DOMAIN engine : EngineEnd(j)
    \/ \E j \in DOMAIN engine : \E m \in ErrMsgs : EngineError(j, m)

Spec == Init /\ [][Next]_vars

\* submissions, engine events and the clock, without observers
NextJobs ==
    \/ Tick(JobsMaxTime)
    \/ \E body \in ConvertBodies : ConvertBegin(body, JobsMaxJobs)
    \/ \E r \in pending : ConvertFinish(r)
    \/ \E body \in TrimBodies : Trim(body, JobsMaxJobs)
    \/ \E body \in MergeBodies : Merge(body, JobsMaxJobs)
    \/ \E body \in FilterBodies : FilterBegin(body, JobsMaxJobs)
    \/ \E r \in pending : FilterFinish(r)
    \/ \E j \in DOMAIN engine : \E p \in ProgressObjs : EngineProgress(j, p)
    \/ \E j \in DOMAIN engine : EngineEnd(j)
    \/ \E j \in DOMAIN engine : \E m \in ErrMsgs : EngineError(j, m)

SpecJobs == InitStored /\ [][NextJobs]_vars

\* the inputs of the observer specifications: one accepted and one rejected
\* trim request, a progress event without percent and one with
PushBodies == {TrimBody("a.mp4", "00:00:30", "00:01:00"),
               TrimBody(Undefined, "00:00:30", "00:01:00")}
PushProgress == {[frames |-> 1], [frames |-> 1, percent |-> 495]}

\* observers and the engine events of trim jobs
NextPush ==
    \/ \E body \in PushBodies : Trim(body, PushMaxJobs)
    \/ WsConnect(PushMaxConns)
    \/ \E c \in DOMAIN activeConnections : \E m \in WsMessages : WsMessage(c, m)
    \/ \E c \in DOMAIN activeConnections : WsClosing(c)
    \/ \E c \in DOMAIN activeConnections : WsClose(c)
    \/ \E j \in DOMAIN engine : \E p \in PushProgress : EngineProgress(j, p)
    \/ \E j \in DOMAIN engine : EngineEnd(j)
    \/ \E j \in DOMAIN engine : \E m \in ErrMsgs : EngineError(j, m)

SpecPush == InitStored /\ [][NextPush]_vars

\* one observer changing its subscription between accepted trim jobs that
\* report progress
ResubBodies == {TrimBody("a.mp4", "00:00:30", "00:01:00")}
ResubProgress == {[frames |-> 1, percent |-> 495]}
NextResub ==
    \/ \E body \in ResubBodies : Trim(body, ResubMaxJobs)
    \/ WsConnect(ResubMaxConns)
    \/ \E c \in DOMAIN activeConnections : \E m \in Subscribes : WsMessageTracked(c, m)
    \/ \E c \in DOMAIN activeConnections : WsClosing(c)
    \/ \E c \in DOMAIN activeConnections : WsClose(c)
    \/ \E j \in DOMAIN engine : \E p \in ResubProgress : EngineProgress(j, p)
    \/ \E j \in DOMAIN engine : EngineEnd(j)

SpecResub == InitStored /\ [][NextResub]_vars

OrderBodies == {TrimBody("a.mp4", "00:00:30", "00:01:00")}
OrderProgress == {[frames |-> 1, percent |-> 495]}
\* observers of trim jobs, every broadcast and delivery recorded
NextOrder ==
    \/ \E body \in OrderBodies : Trim(body, OrderMaxJobs)
    \/ WsConnect(OrderMaxConns)
    \/ \E c \in DOMAIN activeConnections : \E m \in Subscribes : WsMessage(c, m)
    \/ \E c \in DOMAIN activeConnections : WsClose(c)
    \/ \E j \in DOMAIN engine : \E p \in OrderProgress :
          ProgressRecorded(j, p, OrderMaxLog)
    \/ \E j \in DOMAIN engine : EndRecorded(j, OrderMaxLog)

SpecOrder == InitStored /\ [][NextOrder]_vars

\* accepted convert and merge submissions and every event of their commands
FlightConverts == {ConvertBody("a.mp4", "webm", Undefined)}
FlightMerges == {[given |-> TRUE, isArray |-> TRUE, items |-> <<"a.mp4", "a.mp4">>]}
FlightProgress == {[frames |-> 1, percent |-> 495]}
NextFlight ==
    \/ \E body \in FlightConverts : ConvertBegin(body, FlightMaxJobs)
    \/ \E r \in pending : ConvertFinish(r)
    \/ \E body \in FlightMerges : Merge(body, FlightMaxJobs)
    \/ \E j \in DOMAIN engine : \E p \in FlightProgress : EngineProgress(j, p)
    \/ \E j \in DOMAIN engine : EngineEnd(j)
    \/ \E j \in DOMAIN engine : \E m \in ErrMsgs : EngineError(j, m)

SpecFlight == InitStored /\ [][NextFlight]_vars

\* job queries between the steps of trim jobs
NextQuery ==
    \/ Tick(QueryMaxTime)
    \/ \E body \in PushBodies : Trim(body, QueryMaxJobs)
    \/ \E j \in DOMAIN engine : \E p \in PushProgress : EngineProgress(j, p)
    \/ \E j \in DOMAIN engine : EngineEnd(j)
    \/ \E j \in DOMAIN engine : \E m \in ErrMsgs : EngineError(j, m)
    \/ \E id \in Queries : GetJob(id)

SpecQuery == InitStored /\ [][NextQuery]_vars

\* merge submissions and the events of their commands
NextMerge ==
    \/ \E body \in MergeBodies : Merge(body, MergeMaxJobs)
    \/ \E j \in DOMAIN engine : \E p \in ProgressObjs : EngineProgress(j, p)
    \/ \E j \in DOMAIN engine : EngineEnd(j)
    \/ \E j \in DOMAIN engine : \E m \in ErrMsgs : EngineError(j, m)

SpecMerge == InitStored /\ [][NextMerge]_vars

\* observers of convert and filter jobs whose commands keep the engine's
\* contract: progress events, then one terminal event and nothing after it;
\* a progress event may already report 99.6 percent
FinishFilters == {FilterBody("a.mp4", "blur")}
FinishProgress == {[frames |-> 1, percent |-> 495],
                   [frames |-> 1, percent |-> 996]}
NextFinish ==
    \/ \E body \in FlightConverts : ConvertBegin(body, FinishMaxJobs)
    \/ \E r \in pending : ConvertFinish(r)
    \/ \E body \in FinishFilters : FilterBegin(body, FinishMaxJobs)
    \/ \E r \in pending : FilterFinish(r)
    \/ WsConnect(FinishMaxConns)
    \/ \E c \in DOMAIN activeConnections : \E m \in Subscribes : WsMessage(c, m)
    \/ \E c \in DOMAIN activeConnections : WsClosing(c)
    \/ \E c \in DOMAIN activeConnections : WsClose(c)
    \/ \E j \in DOMAIN engine : \E p \in FinishProgress : EngineProgressLive(j, p)
    \/ \E j \in DOMAIN engine : EngineEnd(j)
    \/ \E j \in DOMAIN engine : \E m \in ErrMsgs : EngineError(j, m)

SpecFinish == InitStored /\ [][NextFinish]_vars

\* thumbnail requests for a stored and for a missing file, beside a trim
\* job and a connection that may subscribe to it
NextThumb ==
    \/ \E f \in Files : ThumbnailBegin(f)
    \/ \E r \in pending : ThumbnailAccessed(r)
    \/ \E r \in pending : \E ok \in BOOLEAN : ThumbnailSettled(r, ok)
    \/ \E body \in OrderBodies : Trim(body, ThumbMaxJobs)
    \/ WsConnect(ThumbMaxConns)
    \/ \E c \in DOMAIN activeConnections : \E m \in Subscribes : WsMessage(c, m)
    \/ \E c \in DOMAIN activeConnections : WsClose(c)
    \/ \E j \in DOMAIN engine : \E p \in FlightProgress : EngineProgress(j, p)
    \/ \E j \in DOMAIN engine : EngineEnd(j)
    \/ \E j \in DOMAIN engine : \E m \in ErrMsgs : EngineError(j, m)

SpecThumb == InitStored /\ [][NextThumb]_vars

\* one page that submits trim jobs and follows them over its WebSocket,
\* which may close and be opened again; the page reads the answer to a
\* submission while its socket is open
NextPage ==
    \/ SetupWebSocket
    \/ PageAccepted(PageMaxConns)
    \/ PageOnOpen
    \/ \E body \in OrderBodies : Trim(body, PageMaxJobs)
    \/ \E j \in DOMAIN activeJobs : client.readyState = "OPEN" /\ PageOnResult(j)
    \/ PageSubscribeArrives
    \/ PageOnClose
    \/ \E c \in DOMAIN activeConnections : WsClose(c)
    \/ \E j \in DOMAIN engine : \E p \in FlightProgress : EngineProgress(j, p)
    \/ \E j \in DOMAIN engine : EngineEnd(j)
    \/ \E j \in DOMAIN engine : \E m \in ErrMsgs : EngineError(j, m)

SpecPage == InitStored /\ [][NextPage]_vars

\* one page that submits trim jobs one after the other, subscribes on each
\* answer and shows what it is sent; the commands keep the engine's
\* contract and every delivery is recorded
NextShow ==
    \/ SetupWebSocket
    \/ PageAccepted(ShowMaxConns)
    \/ PageOnOpen
    \/ \E body \in OrderBodies : Trim(body, ShowMaxJobs)
    \/ \E j \in DOMAIN activeJobs : PageOnResult(j)
    \/ PageSubscribeArrives
    \/ \E i \in 1..Len(sent) : PageOnMessage(i)
    \/ PageOnClose
    \/ \E c \in DOMAIN activeConnections : WsClose(c)
    \/ \E j \in DOMAIN engine : \E p \in FlightProgress :
          engine[j] = "running" /\ ProgressRecorded(j, p, ShowMaxLog)
    \/ \E j \in DOMAIN engine : EndRecorded(j, ShowMaxLog)
    \/ \E j \in DOMAIN engine : \E m \in ErrMsgs : EngineError(j, m)

SpecShow == InitStored /\ [][NextShow]_vars

\* connections that send every kind of message while a trim job runs; no
\* connection-level error occurs
NextMsg ==
    \/ \E body \in OrderBodies : Trim(body, MsgMaxJobs)
    \/ WsConnect(MsgMaxConns)
    \/ \E c \in DOMAIN activeConnections : \E m \in WsMessages : WsMessage(c, m)
    \/ \E c \in DOMAIN activeConnections : WsClose(c)
    \/ \E j \in DOMAIN engine : \E p \in FlightProgress : EngineProgress(j, p)
    \/ \E j \in DOMAIN engine : EngineEnd(j)

SpecMsg == InitStored /\ [][NextMsg]_vars

\* a trim job whose running command reports 49.5 percent or no percentage
\* in any order, one observer, the broadcasts recorded
NextDip ==
    \/ \E body \in OrderBodies : Trim(body, DipMaxJobs)
    \/ WsConnect(DipMaxConns)
    \/ \E c \in DOMAIN activeConnections : \E m \in Subscribes : WsMessage(c, m)
    \/ \E c \in DOMAIN activeConnections : WsClose(c)
    \/ \E j \in DOMAIN engine : \E p \in PushProgress :
          engine[j] = "running" /\ ProgressRecorded(j, p, DipMaxLog)
    \/ \E j \in DOMAIN engine : EndRecorded(j, DipMaxLog)
    \/ \E j \in DOMAIN engine : \E m \in ErrMsgs : EngineError(j, m)

SpecDip == InitStored /\ [][NextDip]_vars

\* trim and filter jobs whose commands, once started, emit their terminal
\* event: the engine is fair, the clients need not be
LiveFilters == {FilterBody("a.mp4", "blur"), FilterBody("a.mp4", "sepia")}
NextLive ==
    \/ \E body \in OrderBodies : Trim(body, LiveMaxJobs)
    \/ \E body \in LiveFilters : FilterBegin(body, LiveMaxJobs)
    \/ \E r \in pending : FilterFinish(r)
    \/ \E j \in DOMAIN engine : \E p \in FlightProgress : EngineProgressLive(j, p)
    \/ \E j \in DOMAIN engine : EngineEnd(j)
    \/ \E j \in DOMAIN engine : \E m \in ErrMsgs : EngineError(j, m)

\* a started command emits 'end' or 'error'
Terminal(j) == EngineEnd(j) \/ \E m \in ErrMsgs : EngineError(j, m)

SpecLive ==
    /\ InitStored
    /\ [][NextLive]_vars
    /\ \A j \in 1..LiveMaxJobs : WF_vars(Terminal(j))
    /\ WF_vars(\E r \in pending : FilterFinish(r))

\* trim jobs among everything else the server does: further submissions,
\* queries, an observer coming and going, and cleanup runs that remove the
\* input file
NextStall ==
    \/ \E body \in OrderBodies : Trim(body, StallMaxJobs)
    \/ \E id \in Queries : GetJob(id)
    \/ WsConnect(StallMaxConns)
    \/ \E c \in DOMAIN activeConnections : \E m \in Subscribes : WsMessage(c, m)
    \/ \E c \in DOMAIN activeConnections : WsClose(c)
    \/ \E j \in DOMAIN engine : \E p \in FlightProgress : EngineProgress(j, p)
    \/ \E j \in DOMAIN engine : EngineEnd(j)
    \/ \E j \in DOMAIN engine : \E m \in ErrMsgs : EngineError(j, m)
    \/ SweepStart
    \/ SweepOutputs
    \/ \E f \in DOMAIN uploads : \E fault \in NoFault : SweepUpload(f, fault)

SpecStall == InitAged /\ [][NextStall]_vars

\* the steps around the cleanup job: uploads, a trim job and its output
\* file, and the passing of time
SweepFiles == {"b.mp4"}
SweepBodies == {TrimBody("a.mp4", "00:00:30", "00:01:00")}
NextStored ==
    \/ \E f \in SweepFiles : Upload(f)
    \/ \E d \in Durations : Elapse(d, SweepMaxMs)
    \/ \E body \in SweepBodies : Trim(body, SweepMaxJobs)
    \/ \E j \in DOMAIN engine : EngineWrites(j)
    \/ \E j \in DOMAIN engine : EngineEnd(j)
    \/ SweepStart
    \/ SweepOutputs

\* the cleanup job when no filesystem operation fails
NextSweep ==
    \/ NextStored
    \/ \E f \in DOMAIN uploads : \E fault \in NoFault : SweepUpload(f, fault)
    \/ \E f \in DOMAIN outputs : \E fault \in NoFault : SweepOutput(f, fault)

SpecSweep == InitStored /\ [][NextSweep]_vars

\* the cleanup job when fs.stat or fs.unlink may reject
NextSweepFaulty ==
    \/ NextStored
    \/ \E f \in DOMAIN uploads : \E fault \in Faults : SweepUpload(f, fault)
    \/ \E f \in DOMAIN outputs : \E fault \in Faults : SweepOutput(f, fault)

SpecSweepFaulty == InitStored /\ [][NextSweepFaulty]_vars

(* ------------------------------ claims -------------------------------- *)
\* the job object of the engine event handled by the last step
EventJob == activeJobs[lastEvent.jobId]

\* the last step called broadcastProgress
Broadcasting == lastEvent.type \in {"progress", "end"}

\* the number of ws.send calls the last step made on connection c
Deliveries(c) == Cardinality({i \in 1..Len(sent) : sent[i].conn = c})

\* C1: when a submission is answered with a job identifier, the Job Store
\* holds a record for that identifier with status processing and progress 0.
C1_AcceptedJobIsProcessing ==
    (lastResponse.status = 200 /\ lastResponse.jobId # NoJob) =>
        /\ lastResponse.jobId \in DOMAIN activeJobs
        /\ activeJobs[lastResponse.jobId].id = lastResponse.jobId
        /\ activeJobs[lastResponse.jobId].status = "processing"
        /\ activeJobs[lastResponse.jobId].progress = 0

\* a submission has just been accepted and its engine started
C1_Witness ==
    /\ lastResponse.status = 200
    /\ lastResponse.jobId \in DOMAIN activeJobs
    /\ lastResponse.jobId \in DOMAIN engine

\* C2 (as claimed): a valid submission naming an input file that is not in
\* uploads/ is answered 404, adds no job record and starts no engine.
C2_MissingInputRejected ==
    [][lastResponse'.missing =>
         /\ lastResponse'.status = 404
         /\ activeJobs' = activeJobs
         /\ engine' = engine]_vars

\* C3 (as claimed): a request answered 400 leaves the Job Store as it was.
C3_InvalidArgumentNoSideEffect ==
    [][lastResponse'.status = 400 => activeJobs' = activeJobs]_vars

\* C4: a job's status changes only from processing to completed or to
\* failed; a record is never removed, and a completed or failed job keeps
\* its status in every later state.
C4_StatusOnlyForward ==
    [][\A j \in DOMAIN activeJobs :
         /\ j \in DOMAIN activeJobs'
         /\ \/ activeJobs'[j].status = activeJobs[j].status
            \/ /\ activeJobs[j].status = "processing"
               /\ activeJobs'[j].status \in {"completed", "failed"}]_vars

\* a job has failed and a later step has been taken
C4_Witness ==
    \E j \in DOMAIN activeJobs :
        /\ activeJobs[j].status = "failed"
        /\ lastEvent.type # "error"

\* C5: right after the engine's completion event is handled the record has
\* status completed, progress 100 and an endTime not before its startTime.
C5_CompletedRecord ==
    lastEvent.type = "end" =>
        /\ EventJob.status = "completed"
        /\ EventJob.progress = 100
        /\ Has(EventJob, "endTime")
        /\ EventJob.endTime >= EventJob.startTime

\* a job has just completed, some time after it was created
C5_Witness ==
    /\ lastEvent.type = "end"
    /\ EventJob.endTime > EventJob.startTime

\* C6: right after an engine error event is handled the record has status
\* failed, the engine's message as error and an endTime, and the step sent
\* no message to any connection.
C6_ErrorRecordNoBroadcast ==
    lastEvent.type = "error" =>
        /\ EventJob.status = "failed"
        /\ Has(EventJob, "error") /\ EventJob.error = lastEvent.message
        /\ Has(EventJob, "endTime")
        /\ sent = <<>>

\* a job has just failed while an open connection was subscribed to it
C6_Witness ==
    /\ lastEvent.type = "error"
    /\ \E c \in DOMAIN activeConnections :
         /\ lastSub[c] = lastEvent.jobId
         /\ activeConnections[c].readyState = "OPEN"

\* C7 (as claimed): a progress event of a failed job changes no field of
\* its record and causes no send.
C7_NoProgressAfterError ==
    [][\A j \in DOMAIN activeJobs :
         (/\ activeJobs[j].status = "failed"
          /\ lastEvent'.type = "progress"
          /\ lastEvent'.jobId = j)
         => (activeJobs'[j] = activeJobs[j] /\ sent' = <<>>)]_vars

\* C8 (as claimed): every stored progress and every broadcast percentage is
\* an integer in 0..100.
C8_ProgressInRange ==
    /\ \A j \in DOMAIN activeJobs : activeJobs[j].progress \in 0..100
    /\ \A i \in 1..Len(sent) : sent[i].progress \in 0..100

\* C9: a step that broadcasts for job J sends exactly one progress message,
\* carrying J and the broadcast value, to each registered connection that is
\* subscribed to J and open, and nothing to any other connection; a step
\* that does not broadcast sends nothing.
C9_BroadcastExactlySubscribers ==
    IF Broadcasting
    THEN /\ \A c \in DOMAIN activeConnections :
              Deliveries(c) =
                  IF /\ Subscription(activeConnections[c]) = lastEvent.jobId
                     /\ activeConnections[c].readyState = "OPEN"
                  THEN 1 ELSE 0
         /\ \A i \in 1..Len(sent) :
              /\ sent[i].conn \in DOMAIN activeConnections
              /\ sent[i].type = "progress"
              /\ sent[i].jobId = lastEvent.jobId
              /\ sent[i].progress = EventJob.progress
    ELSE sent = <<>>

\* a broadcast reached one registered connection and skipped another
C9_Witness ==
    /\ Broadcasting
    /\ \E c, d \in DOMAIN activeConnections :
         /\ Deliveries(c) = 1
         /\ Deliveries(d) = 0

\* C10: once a connection that asked for job A has asked for another job B,
\* a broadcast for A sends it nothing and a broadcast for B sends it, while
\* it is open, exactly one message for B.
C10_LastSubscribeWins ==
    Broadcasting =>
        \A c \in DOMAIN activeConnections :
            (prevSub[c] # NoJob /\ prevSub[c] # lastSub[c]) =>
                /\ lastEvent.jobId = prevSub[c] => Deliveries(c) = 0
                /\ (/\ lastEvent.jobId = lastSub[c]
                    /\ activeConnections[c].readyState = "OPEN")
                   => /\ Deliveries(c) = 1
                      /\ \A i \in 1..Len(sent) :
                           sent[i].conn = c => sent[i].jobId = lastSub[c]

\* a connection that moved from job A to job B has just been sent a
\* broadcast of B, while A is still a job of the store
C10_Witness ==
    /\ Broadcasting
    /\ \E c \in DOMAIN activeConnections :
         /\ prevSub[c] \in DOMAIN activeJobs
         /\ prevSub[c] # lastSub[c]
         /\ lastEvent.jobId = lastSub[c]
         /\ Deliveries(c) = 1

\* the later of the moments two connections last subscribed, as a length
\* of issued
PeriodStart(c, d) == IF since[c] >= since[d] THEN since[c] ELSE since[d]

\* the broadcasts for job jobId issued after the first n recorded ones
IssuedFor(jobId, n) ==
    SelectSeq(SubSeq(issued, n + 1, Len(issued)), LAMBDA e : e.jobId = jobId)

\* the last n elements of a sequence
LastOf(seq, n) == SubSeq(seq, Len(seq) - n + 1, Len(seq))

\* connection c is registered, open and has asked for job jobId
Watching(c, jobId) ==
    /\ c \in DOMAIN activeConnections
    /\ activeConnections[c].readyState = "OPEN"
    /\ lastSub[c] = jobId

\* C11: two connections that have both been registered, open and subscribed
\* to job J since some moment have each been sent every broadcast issued for
\* J since that moment, once each and in the order of the broadcastProgress
\* calls.
C11_SameBroadcastsInOrder ==
    \A j \in DOMAIN activeJobs :
      \A c, d \in DOMAIN activeConnections :
        (Watching(c, j) /\ Watching(d, j)) =>
            LET due == IssuedFor(j, PeriodStart(c, d))
            IN /\ Len(heard[c]) >= Len(due)
               /\ Len(heard[d]) >= Len(due)
               /\ LastOf(heard[c], Len(due)) = due
               /\ LastOf(heard[d], Len(due)) = due

\* two connections watching the same job have both been sent two
\* broadcasts of different values
C11_Witness ==
    \E j \in DOMAIN activeJobs :
      \E c, d \in DOMAIN activeConnections :
        /\ c # d
        /\ Watching(c, j) /\ Watching(d, j)
        /\ LET due == IssuedFor(j, PeriodStart(c, d))
           IN /\ Len(due) >= 2
              /\ due[1].progress > due[2].progress
              /\ LastOf(heard[c], Len(due)) = due
              /\ LastOf(heard[d], Len(due)) = due

\* "files older than 7 days", in milliseconds
SevenDays == 7 * 24 * 60 * 60 * 1000

\* the age a file born at birthtime has for a cleanup started at time at
Age(birthtime, at) == at - birthtime

\* C12 (as claimed): when a cleanup run ends on a failed fs.stat or
\* fs.unlink of one entry, no other file older than 7 days is left in
\* uploads/ or in outputs/.
C12_FailureDoesNotAbort ==
    lastEvent.type = "aborted" =>
        /\ \A f \in DOMAIN uploads :
              Age(uploads[f], lastEvent.at) > SevenDays =>
                  (lastEvent.area = "uploads" /\ lastEvent.file = f)
        /\ \A g \in DOMAIN outputs :
              Age(outputs[g], lastEvent.at) > SevenDays =>
                  (lastEvent.area = "outputs" /\ lastEvent.file = g)

\* C13: while no filesystem operation fails, a file leaves uploads/ or
\* outputs/ only if a cleanup run is on and the file is more than 7 days
\* older than that run's start, and when a run ends no file more than 7
\* days older than its start is left in either directory.
C13_SweepRemovesExpired ==
    [][/\ \A f \in DOMAIN uploads \ DOMAIN uploads' :
             sweep.phase = "uploads" /\ Age(uploads[f], sweep.now) > SevenDays
       /\ \A g \in DOMAIN outputs \ DOMAIN outputs' :
             sweep.phase = "outputs" /\ Age(outputs[g], sweep.now) > SevenDays
       /\ lastEvent'.type = "swept" =>
             /\ \A f \in DOMAIN uploads' :
                   Age(uploads'[f], lastEvent'.at) <= SevenDays
             /\ \A g \in DOMAIN outputs' :
                   Age(outputs'[g], lastEvent'.at) <= SevenDays]_vars

\* a run has just ended that removed a file from each directory and kept
\* an upload exactly 7 days old
C13_Witness ==
    /\ lastEvent.type = "swept"
    /\ lastEvent.removed # {}
    /\ lastEvent.removedOut # {}
    /\ \E f \in DOMAIN uploads : Age(uploads[f], lastEvent.at) = SevenDays

\* GET /api/jobs: the identifiers of the records listed
ListedIds == {activeJobs[j].id : j \in DOMAIN activeJobs}

\* C14: no step removes a record from the Job Store, so the identifiers
\* GET /api/jobs lists only grow, and a step of the cleanup job leaves every
\* job record as it was.
C14_StoreOnlyGrows ==
    [][/\ DOMAIN activeJobs \subseteq DOMAIN activeJobs'
       /\ ListedIds \subseteq ListedIds'
       /\ (sweep.phase # "idle" /\ sweep' # sweep) => activeJobs' = activeJobs]_vars

\* a cleanup run has just removed the input file and the output file of a
\* completed job that is still in the store
C14_Witness ==
    /\ lastEvent.type = "swept"
    /\ \E j \in DOMAIN activeJobs :
         /\ activeJobs[j].status = "completed"
         /\ activeJobs[j].inputFile \in lastEvent.removed
         /\ activeJobs[j].outputFile \in lastEvent.removedOut

\* the last step handled an engine event
EngineEvent(event) == event.type \in {"progress", "end", "error"}

\* C15: a step that handles a progress, end or error event of job J leaves
\* the record of every other job exactly as it was.
C15_EventTouchesOwnJob ==
    [][EngineEvent(lastEvent') =>
         \A k \in DOMAIN activeJobs \ {lastEvent'.jobId} :
             /\ k \in DOMAIN activeJobs'
             /\ activeJobs'[k] = activeJobs[k]]_vars

\* a job has just failed while another job's command is running and that
\* job is still processing
C15_Witness ==
    /\ lastEvent.type = "error"
    /\ \E k \in DOMAIN activeJobs \ {lastEvent.jobId} :
         /\ k \in DOMAIN engine
         /\ engine[k] = "running"
         /\ activeJobs[k].status = "processing"

\* C16: a step that answers a submission with a job identifier adds one
\* record to the Job Store, under that identifier, which no record had
\* before; no step adds more than one record, changes the key of a record
\* or replaces a record by a new one.
C16_FreshIdentifier ==
    [][/\ \A k \in DOMAIN activeJobs :
             /\ k \in DOMAIN activeJobs'
             /\ activeJobs'[k].id = k
             /\ activeJobs'[k].startTime = activeJobs[k].startTime
             /\ activeJobs'[k].outputFile = activeJobs[k].outputFile
       /\ Cardinality(DOMAIN activeJobs' \ DOMAIN activeJobs) <= 1
       /\ (lastResponse'.status = 200 /\ lastResponse'.jobId # NoJob) =>
             /\ lastResponse'.jobId \notin DOMAIN activeJobs
             /\ DOMAIN activeJobs' = DOMAIN activeJobs \cup {lastResponse'.jobId}
             /\ activeJobs'[lastResponse'.jobId].id = lastResponse'.jobId
             /\ \A k \in DOMAIN activeJobs : activeJobs'[k] = activeJobs[k]]_vars

\* a second submission has just been accepted
C16_Witness ==
    /\ lastResponse.status = 200
    /\ lastResponse.jobId \in DOMAIN activeJobs
    /\ Cardinality(DOMAIN activeJobs) >= 2

\* C17: once a job has failed, every later step leaves it failed and its
\* command exited, and no job ever has more than one command run for it.
C17_FailedNeverRetried ==
    [][/\ \A j \in DOMAIN activeJobs :
             activeJobs[j].status = "failed" =>
                 /\ activeJobs'[j].status = "failed"
                 /\ j \in DOMAIN engine'
                 /\ engine'[j] = "done"
       /\ \A j \in DOMAIN runs' : runs'[j] = 1
       /\ DOMAIN runs' = DOMAIN engine']_vars

\* a progress event of a failed job has just been handled: the job's one
\* command has exited and nothing was run again
C17_Witness ==
    /\ lastEvent.type = "progress"
    /\ activeJobs[lastEvent.jobId].status = "failed"
    /\ engine[lastEvent.jobId] = "done"
    /\ runs[lastEvent.jobId] = 1

\* C18 (as claimed): after a connection-level error on a connection the
\* server is running and the connection is out of the registry or at least
\* no longer open, its 'close' handler being due.
C18_ErrorUnregisters ==
    lastEvent.type = "connError" =>
        /\ ~crashed
        /\ \/ lastEvent.conn \notin DOMAIN activeConnections
           \/ activeConnections[lastEvent.conn].readyState # "OPEN"

\* everything but the response of the last step
Program == <<fsVars, activeJobs, nextId, pending, engine, runs, connVars, now,
             crashed>>

\* C19: a query changes nothing; for an identifier that is in the Job
\* Store it is answered 200 with every field of the job's record at its
\* current value, and for any other identifier it is answered 404 with no
\* record.
C19_QueryReturnsRecord ==
    [][Has(lastResponse', "query") =>
         /\ Program' = Program
         /\ IF lastResponse'.query \in DOMAIN activeJobs
            THEN /\ lastResponse'.status = 200
                 /\ DOMAIN lastResponse'.body = DOMAIN activeJobs[lastResponse'.query]
                 /\ \A f \in DOMAIN lastResponse'.body :
                      lastResponse'.body[f] = activeJobs[lastResponse'.query][f]
            ELSE /\ lastResponse'.status = 404
                 /\ ~Has(lastResponse', "body")]_vars

\* a query of a failed job has just been answered with its error message
C19_Witness ==
    /\ Has(lastResponse, "query")
    /\ lastResponse.status = 200
    /\ Has(lastResponse.body, "error")
    /\ lastResponse.body.status = "failed"

\* the merge bodies whose inputFiles is missing, is not a list, or is a
\* list of fewer than 2 files
RejectedMerges ==
    {b \in MergeBodies : ~b.given \/ ~b.isArray \/ Len(b.items) \in {0, 1}}

\* C20: a merge submission whose list is missing, not a list or shorter
\* than 2 is answered 400, and a step answered 400 leaves the Job Store and
\* the commands as they were.
C20_MergeNeedsTwoInputs ==
    [][/\ \A b \in RejectedMerges :
             Merge(b, MergeMaxJobs) => lastResponse'.status = 400
       /\ lastResponse'.status = 400 =>
             /\ activeJobs' = activeJobs
             /\ engine' = engine
             /\ runs' = runs]_vars

\* a merge has just been rejected while the store holds a job
C20_Witness ==
    /\ lastResponse.status = 400
    /\ DOMAIN activeJobs # {}
    /\ DOMAIN engine # {}

\* C21: a step takes a job out of status processing only if it handles the
\* end or the error event of that job's own command; requests, messages and
\* closes of connections, events of other jobs and cleanup steps leave a
\* processing job processing.
C21_OnlyOwnTerminalEvent ==
    [][\A j \in DOMAIN activeJobs :
         (activeJobs[j].status = "processing"
            /\ activeJobs'[j].status # "processing") =>
              /\ lastEvent'.type \in {"end", "error"}
              /\ lastEvent'.jobId = j]_vars

\* a job whose command is still running is processing after another job
\* failed, a cleanup run ended and a connection subscribed to it and closed
C21_Witness ==
    /\ lastEvent.type = "swept"
    /\ lastEvent.removed # {}
    /\ nextConn > 1
    /\ DOMAIN activeConnections = {}
    /\ \E j, k \in DOMAIN activeJobs :
         /\ activeJobs[j].status = "processing"
         /\ engine[j] = "running"
         /\ activeJobs[j].progress > 0
         /\ activeJobs[k].status = "failed"

\* C22 (as claimed): in every reachable state a completed job reads
\* progress 100, also after events handled later than its end event.
C22_CompletedReads100 ==
    \A j \in DOMAIN activeJobs :
        activeJobs[j].status = "completed" => activeJobs[j].progress = 100

\* C24: right after a progress event is handled the record holds the
\* rounded percentage of the event, and every message a step sends for a
\* job carries the progress the Job Store holds for that job at that moment.
C24_BroadcastCarriesStored ==
    /\ lastEvent.type = "progress" =>
          EventJob.progress = RoundPercent(lastEvent.progress)
    /\ \A i \in 1..Len(sent) :
          /\ Broadcasting /\ sent[i].jobId = lastEvent.jobId
          /\ sent[i].progress = activeJobs[sent[i].jobId].progress

\* a progress event of 49.5 percent has just been sent to two subscribers
\* as 50
C24_Witness ==
    /\ lastEvent.type = "progress"
    /\ Len(sent) = 2
    /\ sent[1].progress = 50
    /\ EventJob.progress = 50

\* C25: the step that handles a job's end event leaves the record completed
\* and sends one message of 100 for that job to each open connection
\* subscribed to it and nothing else; when the engine emits nothing after
\* its terminal event, no later step broadcasts for a completed job.
C25_OneFinalBroadcast ==
    [][\A j \in DOMAIN activeJobs :
         /\ (lastEvent'.type = "end" /\ lastEvent'.jobId = j) =>
               /\ activeJobs'[j].status = "completed"
               /\ \A i \in 1..Len(sent') :
                     sent'[i].jobId = j /\ sent'[i].progress = 100
               /\ \A c \in DOMAIN activeConnections :
                     Cardinality({i \in 1..Len(sent') : sent'[i].conn = c})
                       = IF /\ Subscription(activeConnections[c]) = j
                            /\ activeConnections[c].readyState = "OPEN"
                         THEN 1 ELSE 0
         /\ activeJobs[j].status = "completed" =>
               /\ ~(lastEvent'.type \in {"progress", "end"} /\ lastEvent'.jobId = j)
               /\ \A i \in 1..Len(sent') : sent'[i].jobId # j]_vars

\* a job has just completed; one of two registered connections was sent the
\* one message of the completion
C25_Witness ==
    /\ lastEvent.type = "end"
    /\ EventJob.status = "completed"
    /\ Len(sent) = 1
    /\ Cardinality(DOMAIN activeConnections) = 2
    /\ sent[1].progress = 100

\* C26: a step that broadcasts for job J sends nothing to a connection
\* subscribed to J whose transport is not open, does not bring the process
\* down and leaves the registry as it was; a step that removes a connection
\* from the registry removes that one only and is no broadcast, no engine
\* event and no request.
C26_ClosedSubscriberSkipped ==
    [][/\ lastEvent'.type \in {"progress", "end"} =>
            /\ activeConnections' = activeConnections
            /\ connOrder' = connOrder
            /\ ~crashed'
            /\ \A c \in DOMAIN activeConnections :
                  (/\ Subscription(activeConnections[c]) = lastEvent'.jobId
                   /\ activeConnections[c].readyState # "OPEN")
                  => \A i \in 1..Len(sent') : sent'[i].conn # c
       /\ \A c \in DOMAIN activeConnections :
             c \notin DOMAIN activeConnections' =>
                /\ DOMAIN activeConnections' = DOMAIN activeConnections \ {c}
                /\ lastEvent' = NoEvent
                /\ lastResponse' = NoResponse
                /\ sent' = <<>>]_vars

\* a progress event has just been broadcast to one open subscriber while
\* another connection subscribed to the same job, already closing, is
\* still registered
C26_Witness ==
    /\ lastEvent.type = "progress"
    /\ Len(sent) = 1
    /\ \E c \in DOMAIN activeConnections :
         /\ Subscription(activeConnections[c]) = lastEvent.jobId
         /\ activeConnections[c].readyState = "CLOSING"

\* C27: in every reachable state a job record has an endTime exactly when
\* its status is completed or failed; a processing job has none.
C27_EndTimeIffTerminal ==
    \A j \in DOMAIN activeJobs :
        Has(activeJobs[j], "endTime")
          <=> activeJobs[j].status \in {"completed", "failed"}

\* a job failed after the clock had advanced, and its record says when
C27_Witness ==
    \E j \in DOMAIN activeJobs :
        /\ activeJobs[j].status = "failed"
        /\ Has(activeJobs[j], "endTime")
        /\ activeJobs[j].endTime > activeJobs[j].startTime

\* C28: in every reachable state a job record has an error field exactly
\* when its status is failed; processing and completed jobs have none.
C28_ErrorIffFailed ==
    \A j \in DOMAIN activeJobs :
        Has(activeJobs[j], "error") <=> activeJobs[j].status = "failed"

\* a failed job carries the engine's message, also after a late progress
\* event of its command
C28_Witness ==
    /\ lastEvent.type = "progress"
    /\ EventJob.status = "failed"
    /\ EventJob.error \in ErrMsgs

\* the fields of a record that identify the job, its inputs and its output
Identity(job) ==
    [f \in DOMAIN job \cap {"id", "inputFile", "inputFiles", "outputFile"} |->
        job[f]]

\* C29: a record enters the Job Store with its own identifier, its input
\* name or names and its output name, in status processing, and every step
\* leaves these fields of every stored record as they were.
C29_IdentityFixedAtCreation ==
    [][/\ \A j \in DOMAIN activeJobs' \ DOMAIN activeJobs :
            /\ activeJobs'[j].id = j
            /\ activeJobs'[j].status = "processing"
            /\ Has(activeJobs'[j], "outputFile")
            /\ Has(activeJobs'[j], "inputFile") \/ Has(activeJobs'[j], "inputFiles")
       /\ \A j \in DOMAIN activeJobs :
            /\ j \in DOMAIN activeJobs'
            /\ Identity(activeJobs'[j]) = Identity(activeJobs[j])]_vars

\* a merge job has completed and a convert job has failed, each still
\* carrying the names it was created with
C29_Witness ==
    \E j, k \in DOMAIN activeJobs :
        /\ activeJobs[j].status = "completed"
        /\ Has(activeJobs[j], "inputFiles")
        /\ activeJobs[j].inputFiles = <<"a.mp4", "a.mp4">>
        /\ activeJobs[j].outputFile = MergeOutput(j)
        /\ activeJobs[k].status = "failed"
        /\ Has(activeJobs[k], "inputFile")
        /\ activeJobs[k].inputFile = "a.mp4"
        /\ activeJobs[k].progress > 0

\* the step is one of a thumbnail request: it arrives, its fs.access
\* settles or its command ends or fails
ThumbnailStep ==
    \E r \in (pending' \ pending) \cup (pending \ pending') :
        r.kind \in {"thumbnail", "thumbnailRun"}

\* C30: no step of a thumbnail request, whether it is answered 200, 404 or
\* 500, adds, removes or changes a record of the Job Store, draws a job
\* identifier, starts a tracked command or sends a message to a connection.
C30_ThumbnailNotTracked ==
    [][ThumbnailStep =>
         /\ activeJobs' = activeJobs
         /\ nextId' = nextId
         /\ engine' = engine
         /\ lastEvent' = NoEvent
         /\ sent' = <<>>
         /\ lastResponse'.jobId = NoJob]_vars

\* a thumbnail command has just failed (500) while a job is processing
\* with an open subscriber
C30_Witness ==
    /\ Has(lastResponse, "thumbnail")
    /\ lastResponse.status = 500
    /\ \E j \in DOMAIN activeJobs :
         /\ activeJobs[j].status = "processing"
         /\ activeJobs[j].progress > 0
         /\ \E c \in DOMAIN activeConnections :
              /\ Subscription(activeConnections[c]) = j
              /\ activeConnections[c].readyState = "OPEN"

\* C23 (as claimed): once the page has opened a new connection after its
\* connection closed, and holds a current job, the new connection is
\* subscribed to that job as soon as no subscribe message is on its way.
C23_ResubscribedAfterReconnect ==
    (/\ client.ws > 1
     /\ client.readyState = "OPEN"
     /\ client.currentJobId # NoJob
     /\ client.ws \in DOMAIN activeConnections
     /\ activeConnections[client.ws].readyState = "OPEN"
     /\ Subscription(activeConnections[client.ws]) = client.asked)
    => Subscription(activeConnections[client.ws]) = client.currentJobId

\* C31: the step that handles a progress event stores the rounded
\* percentage of that event, 0 when the event has no percentage or reports
\* 0, also when that is less than the value stored before, and every
\* message the step sends carries the value stored.
C31_ProgressNotMonotonic ==
    [][\A j \in DOMAIN activeJobs :
         (lastEvent'.type = "progress" /\ lastEvent'.jobId = j) =>
            /\ activeJobs'[j].progress = RoundPercent(lastEvent'.progress)
            /\ (~Has(lastEvent'.progress, "percent") \/ lastEvent'.progress.percent = 0)
                  => activeJobs'[j].progress = 0
            /\ RoundPercent(lastEvent'.progress) < activeJobs[j].progress
                  => activeJobs'[j].progress < activeJobs[j].progress
            /\ \A i \in 1..Len(sent') :
                  sent'[i].progress = RoundPercent(lastEvent'.progress)]_vars

\* a processing job that had broadcast 50 has just stored 0 for an event
\* without percentage and sent 0 to its subscriber
C31_Witness ==
    /\ lastEvent.type = "progress"
    /\ EventJob.status = "processing"
    /\ EventJob.progress = 0
    /\ Len(issued) = 2
    /\ issued[1].progress = 50
    /\ issued[2].progress = 0
    /\ Len(sent) = 1
    /\ sent[1].progress = 0

\* C32 (as claimed): in every reachable state each record of the Job Store
\* has had an engine command started for it.
C32_EveryRecordHasCommand ==
    \A j \in DOMAIN activeJobs : j \in DOMAIN engine /\ Runs(j) >= 1

\* C33 (as claimed): when every started command emits its terminal event,
\* every record that enters the Job Store eventually has status completed
\* or failed.
C33_EveryJobTerminates ==
    \A j \in 1..LiveMaxJobs :
        (j \in DOMAIN activeJobs)
          ~> (j \in DOMAIN activeJobs
                /\ activeJobs[j].status \in {"completed", "failed"})

\* the page subscribed to job j on reading the answer to its submission,
\* on the connection it still has open, and the subscribe has arrived
Following(j) ==
    /\ client.currentJobId = j
    /\ client.asked = j
    /\ client.readyState = "OPEN"
    /\ client.ws \in DOMAIN activeConnections
    /\ activeConnections[client.ws].readyState = "OPEN"
    /\ Subscription(activeConnections[client.ws]) = j

\* C34 (as claimed): once a job is completed and the subscribe the page
\* sent for it on the submit response has arrived on its open connection,
\* a message of 100 for that job has been sent on that connection (a
\* completed job is never broadcast again, so none will be sent later).
C34_CompletionReachesPage ==
    \A j \in DOMAIN activeJobs :
        (activeJobs[j].status = "completed" /\ Following(j)) =>
            \E k \in 1..Len(heard[client.ws]) :
                heard[client.ws][k] = [jobId |-> j, progress |-> 100]

\* C35 (as claimed): whatever messages the connections send, the server
\* keeps running, and the subscription of every connection is the job of
\* the last well-formed subscribe it sent, known to the Job Store or not.
C35_MalformedMessageHarmless ==
    /\ ~crashed
    /\ \A c \in DOMAIN activeConnections :
          Subscription(activeConnections[c]) = lastSub[c]

\* C36 (as claimed): while the page has a current job, the value its
\* progress bar shows was set for that job: by the submission (0%) or by
\* a message broadcast for it.
C36_ShownIsCurrentJob ==
    client.currentJobId # NoJob => client.shownFor = client.currentJobId

====
